---- MODULE Spec2Model ----
(***************************************************************************)
(* Request-handling pipeline of the demo service, in its two variants:     *)
(*   "rich"   src/app/main.go       (spans, slog JSON logs, histogram with *)
(*                                   exemplars)                            *)
(*   "simple" src/unnamed/part_000  (sleep, Printf, response)              *)
(* Each in-flight request is one goroutine of net/http; the log sink       *)
(* (stdout) and the histogram vector are process-wide.  The random latency *)
(* values are not kept: the handler only blocks for them, and the sleeping *)
(* positions are program-counter values.                                   *)
(***************************************************************************)
EXTENDS Integers, Sequences, FiniteSets, Bags, TLC

\* ---------------------------------------------------------------- bounds
NumReqs == 2

\* ------------------------------------------------------ program constants
StatusOK == 200
StatusInternalServerError == 500
TraceIDHexLen == 32
SpanIDHexLen == 16

Reqs == 1..NumReqs
Methods == {"GET", "POST"}
Paths == {"/work", "/healthz"}
Variants == {"rich", "simple"}

VARIABLES
    variant,      \* which of the two binaries is running
    exemplarOk,   \* result of the type assertion obs.(prometheus.ExemplarObserver)
    tracingOk,    \* whether the tracer provider hands out valid span contexts
                  \* (FALSE: every span is a no-op span)
    pc,           \* position of each request's goroutine
    request,      \* the inbound request and the span context bound to it
    cancelled,    \* whether the request's context has been cancelled
    local,        \* the handler's local variables
    openSpans,    \* per request: the spans started and not yet ended, oldest first
    calls,        \* per request: the calls made on its behalf, in order
    resp,         \* per request: the http.ResponseWriter
    sink,         \* process-wide stdout: the bag of lines written (the order of
                  \* lines of different requests is not kept)
    hist          \* process-wide reqDuration histogram vector

vars == <<variant, exemplarOk, tracingOk, pc, request, cancelled, local, openSpans, calls, resp, sink, hist>>

\* ------------------------------------------------------------ conversions
Digits == <<"0", "1", "2", "3", "4", "5", "6", "7", "8", "9">>
HexDigits == <<"0", "1", "2", "3", "4", "5", "6", "7", "8", "9", "a", "b", "c", "d", "e", "f">>

RECURSIVE Itoa(_)
\* strconv.Itoa on a non-negative int
Itoa(n) == IF n < 10 THEN Digits[n + 1] ELSE Itoa(n \div 10) \o Digits[(n % 10) + 1]

RECURSIVE Hex(_, _)
\* hex.EncodeToString of a big-endian byte array holding n, width hex digits long
Hex(n, width) == IF width = 0 THEN "" ELSE Hex(n \div 16, width - 1) \o HexDigits[(n % 16) + 1]

\* trace.TraceID.String(): always 32 hex digits, all zeros for the invalid ID
TraceIDString(id) == Hex(id, TraceIDHexLen)

\* trace.SpanID.String(): always 16 hex digits
SpanIDString(id) == Hex(id, SpanIDHexLen)

\* ------------------------------------------------- collaborators' calls
StatusLabels == {Itoa(StatusOK), Itoa(StatusInternalServerError)}
Labels == Methods \X StatusLabels

NoExemplar == ""

NewResponseWriter == [wroteHeader |-> FALSE, status |-> 0, headerCalls |-> 0, body |-> ""]

\* http.ResponseWriter.WriteHeader: the first call fixes the status, a later
\* call is superfluous and leaves the status alone
WriteHeader(w, code) ==
    IF w.wroteHeader
    THEN [w EXCEPT !.headerCalls = @ + 1]
    ELSE [w EXCEPT !.wroteHeader = TRUE, !.status = code, !.headerCalls = @ + 1]

\* http.ResponseWriter.Write: writes the header with 200 first when none was written
Write(w, bytes) ==
    LET w1 == IF w.wroteHeader THEN w ELSE WriteHeader(w, StatusOK)
    IN  [w1 EXCEPT !.body = @ \o bytes]

\* fault variant: the message written with Fprint, without the newline
HttpErrorNoNewline(w, msg, code) == Write(WriteHeader(w, code), msg)

\* http.Error: WriteHeader(code), then Fprintln(w, msg)
HttpError(w, msg, code) == Write(WriteHeader(w, code), msg \o "\n")

\* trace.SpanFromContext(ctx).SpanContext(): the span the middleware bound to
\* the request; a no-op span has the zero trace and span identifiers
SpanFromContext(rq) == [traceID |-> rq.traceID, spanID |-> rq.spanID]

\* one JSON line of the slog handler, written under the handler's mutex
LogEntry(r, level, msg, lg, status) ==
    [req |-> r, structured |-> TRUE, level |-> level, msg |-> msg,
     trace_id |-> lg.trace_id, span_id |-> lg.span_id, status |-> status]

\* one fmt.Printf line of the simple variant
PrintfEntry(r, msg) ==
    [req |-> r, structured |-> FALSE, level |-> "", msg |-> msg,
     trace_id |-> "", span_id |-> "", status |-> 0]

\* fault variant: every outcome logged with log.Info
OutcomeLevelAlwaysInfo(failed) == "INFO"

\* the level of the outcome entry: log.Error in the failure branch, log.Info otherwise
OutcomeLevel(failed) == IF failed THEN "ERROR" ELSE "INFO"

OutcomeMsg(failed) == IF failed THEN "request failed" ELSE "request succeeded"

\* fault variant: the status label taken from the status as initialised
WithLabelValuesStale(method, status) == <<method, Itoa(StatusOK)>>

\* reqDuration.WithLabelValues(r.Method, strconv.Itoa(status))
WithLabelValues(method, status) == <<method, Itoa(status)>>

\* fault variant: the exemplar built from a zero trace.TraceID instead of
\* the request's
ExemplarLabelsZero(traceID) == TraceIDString(0)

\* prometheus.Labels{"traceID": traceID}
ExemplarLabels(traceID) == traceID

\* fault variant: the fallback branch drops the observation
ObserveDropped(h, lbl) == h

\* Observer.Observe: one atomic increment of the series' count
Observe(h, lbl) == [h EXCEPT !.count[lbl] = @ + 1]

\* ExemplarObserver.ObserveWithExemplar: the increment, and the exemplar kept
ObserveWithExemplar(h, lbl, ex) ==
    [h EXCEPT !.count[lbl] = @ + 1, !.exemplar[lbl] = ex]

\* the condition of the exemplar branch: ok && traceID != ""
ExemplarPath(ok, traceID) == ok /\ traceID # ""

Call(kind, name) == <<kind, name>>

\* fault variant: a write that replaces what the sink held
EmitTruncating(sk, entry) == SetToBag({entry})

\* the sink with one more line, written whole
Emit(sk, entry) == sk (+) SetToBag({entry})

\* ------------------------------------------------------------------ Init
NoRequest == [path |-> "", method |-> "", traceID |-> 0, spanID |-> 0]
NoLocals == [status |-> 0, traceID |-> "", trace_id |-> "", span_id |-> "",
             failed |-> FALSE, observed |-> <<>>]

Init ==
    /\ variant \in Variants
    /\ exemplarOk \in (IF variant = "rich" THEN BOOLEAN ELSE {FALSE})
    /\ tracingOk \in BOOLEAN
    /\ pc = [r \in Reqs |-> "idle"]
    /\ request = [r \in Reqs |-> NoRequest]
    /\ cancelled = [r \in Reqs |-> FALSE]
    /\ local = [r \in Reqs |-> NoLocals]
    /\ openSpans = [r \in Reqs |-> <<>>]
    /\ calls = [r \in Reqs |-> <<>>]
    /\ resp = [r \in Reqs |-> NewResponseWriter]
    /\ sink = EmptyBag
    /\ hist = [count |-> [l \in Labels |-> 0], exemplar |-> [l \in Labels |-> NoExemplar]]

\* -------------------------------------------------------------- span calls
StartSpan(stack, name) == Append(stack, name)

\* Span.End(): the span leaves the set of open spans, wherever it stands
EndSpan(stack, name) == SelectSeq(stack, LAMBDA s : s # name)

\* -------------------------------------------------------------- actions
\* otelhttp.NewHandler: the middleware starts the root span and calls the handler
Arrive(r) ==
    /\ pc[r] = "idle"
    /\ \E path \in Paths, method \in Methods :
         request' = [request EXCEPT ![r] =
                        [path |-> path, method |-> method,
                         traceID |-> IF tracingOk THEN r ELSE 0,
                         spanID |-> IF tracingOk THEN r ELSE 0]]
    /\ openSpans' = [openSpans EXCEPT ![r] = StartSpan(@, "root")]
    /\ calls' = [calls EXCEPT ![r] = Append(@, Call("span_start", "root"))]
    /\ pc' = [pc EXCEPT ![r] = "received"]
    /\ UNCHANGED <<variant, exemplarOk, tracingOk, cancelled, local, resp, sink, hist>>

\* healthzHandler, the same in both variants
Healthz(r) ==
    /\ pc[r] = "received"
    /\ request[r].path = "/healthz"
    /\ resp' = [resp EXCEPT ![r] = Write(WriteHeader(@, StatusOK), "OK")]
    /\ calls' = [calls EXCEPT ![r] = @ \o <<Call("write_header", "healthz"), Call("write_body", "healthz")>>]
    /\ pc' = [pc EXCEPT ![r] = "returned"]
    /\ UNCHANGED <<variant, exemplarOk, tracingOk, request, cancelled, local, openSpans, sink, hist>>

\* workHandler (rich), up to the first sleep: the locals, the child logger,
\* the "simulate_work" span
WorkBegin(r) ==
    /\ variant = "rich"
    /\ pc[r] = "received"
    /\ request[r].path = "/work"
    /\ LET sc == SpanFromContext(request[r])
       IN  local' = [local EXCEPT ![r] =
                        [@ EXCEPT !.status = StatusOK,
                                  !.traceID = TraceIDString(sc.traceID),
                                  !.trace_id = TraceIDString(sc.traceID),
                                  !.span_id = SpanIDString(sc.spanID)]]
    /\ openSpans' = [openSpans EXCEPT ![r] = StartSpan(@, "simulate_work")]
    /\ calls' = [calls EXCEPT ![r] = Append(@, Call("span_start", "simulate_work"))]
    /\ pc' = [pc EXCEPT ![r] = "sleep1"]
    /\ UNCHANGED <<variant, exemplarOk, tracingOk, request, cancelled, resp, sink, hist>>

\* the first sleep returns: childSpan.End(), then the "db_cache_lookup" span
WorkWake1(r) ==
    /\ pc[r] = "sleep1"
    /\ variant = "rich"
    /\ openSpans' = [openSpans EXCEPT ![r] =
                        StartSpan(EndSpan(@, "simulate_work"), "db_cache_lookup")]
    /\ calls' = [calls EXCEPT ![r] = @ \o <<Call("span_end", "simulate_work"),
                                            Call("span_start", "db_cache_lookup")>>]
    /\ pc' = [pc EXCEPT ![r] = "sleep2"]
    /\ UNCHANGED <<variant, exemplarOk, tracingOk, request, cancelled, local, resp, sink, hist>>

\* fault variant: the handler forgets cacheSpan.End()
WorkWake2NoEnd(r) ==
    /\ pc[r] = "sleep2"
    /\ pc' = [pc EXCEPT ![r] = "recording"]
    /\ UNCHANGED <<variant, exemplarOk, tracingOk, request, cancelled, local, openSpans, calls, resp, sink, hist>>

\* the second sleep returns: cacheSpan.End()
WorkWake2(r) ==
    /\ pc[r] = "sleep2"
    /\ openSpans' = [openSpans EXCEPT ![r] = EndSpan(@, "db_cache_lookup")]
    /\ calls' = [calls EXCEPT ![r] = Append(@, Call("span_end", "db_cache_lookup"))]
    /\ pc' = [pc EXCEPT ![r] = "recording"]
    /\ UNCHANGED <<variant, exemplarOk, tracingOk, request, cancelled, local, resp, sink, hist>>

\* fault variant: the response written before the outcome entry is logged
OutcomeCallsRespondFirst(failed) ==
    (IF failed THEN <<Call("write_header", "work")>> ELSE <<>>)
      \o <<Call("write_body", "work")>>
      \o <<Call("log", OutcomeMsg(failed))>>

\* the calls of the outcome branch, in statement order: log.Error / log.Info,
\* then http.Error (WriteHeader and Fprintln) or w.Write
OutcomeCalls(failed) ==
    <<Call("log", OutcomeMsg(failed))>>
      \o (IF failed THEN <<Call("write_header", "work")>> ELSE <<>>)
      \o <<Call("write_body", "work")>>

\* the outcome branch: rand.Float32() < 0.2 decides; the outcome entry is
\* logged, then the response is written
WorkOutcome(r) ==
    /\ pc[r] = "recording"
    /\ \E failed \in BOOLEAN :
         LET status == IF failed THEN StatusInternalServerError ELSE local[r].status
         IN  /\ local' = [local EXCEPT ![r] = [@ EXCEPT !.status = status, !.failed = failed]]
             /\ sink' = Emit(sink, LogEntry(r, OutcomeLevel(failed), OutcomeMsg(failed),
                                              local[r], status))
             /\ resp' = [resp EXCEPT ![r] =
                           IF failed
                           THEN HttpError(@, "Internal Server Error", StatusInternalServerError)
                           ELSE Write(@, "Work completed\n")]
             /\ calls' = [calls EXCEPT ![r] = @ \o OutcomeCalls(failed)]
    /\ pc' = [pc EXCEPT ![r] = "observing"]
    /\ UNCHANGED <<variant, exemplarOk, tracingOk, request, cancelled, openSpans, hist>>

\* the exemplar branch is chosen and its entry logged
WorkExemplarLog(r) ==
    /\ pc[r] = "observing"
    /\ LET path == ExemplarPath(exemplarOk, local[r].traceID)
       IN  /\ sink' = Emit(sink,
                        IF path
                        THEN LogEntry(r, "INFO", "Attaching exemplar", local[r], 0)
                        ELSE LogEntry(r, "WARN", "Exemplar not supported or traceID empty",
                                      local[r], 0))
           /\ calls' = [calls EXCEPT ![r] =
                          Append(@, Call("log", IF path THEN "Attaching exemplar"
                                                ELSE "Exemplar not supported or traceID empty"))]
           /\ pc' = [pc EXCEPT ![r] = IF path THEN "exemplar" ELSE "plain"]
    /\ UNCHANGED <<variant, exemplarOk, tracingOk, request, cancelled, local, openSpans, resp, hist>>

\* the observation itself, on the series of (r.Method, strconv.Itoa(status))
WorkObserve(r) ==
    /\ pc[r] \in {"exemplar", "plain"}
    /\ LET lbl == WithLabelValues(request[r].method, local[r].status)
           ex  == ExemplarLabels(local[r].traceID)
       IN  IF pc[r] = "exemplar"
           THEN /\ hist' = ObserveWithExemplar(hist, lbl, ex)
                /\ local' = [local EXCEPT ![r].observed =
                               Append(@, [labels |-> lbl, exemplar |-> TRUE, traceID |-> ex])]
                /\ calls' = [calls EXCEPT ![r] = Append(@, Call("observe", "exemplar"))]
           ELSE /\ hist' = Observe(hist, lbl)
                /\ local' = [local EXCEPT ![r].observed =
                               Append(@, [labels |-> lbl, exemplar |-> FALSE, traceID |-> NoExemplar])]
                /\ calls' = [calls EXCEPT ![r] = Append(@, Call("observe", "plain"))]
    /\ pc' = [pc EXCEPT ![r] = "returned"]
    /\ UNCHANGED <<variant, exemplarOk, tracingOk, request, cancelled, openSpans, resp, sink>>

\* workHandler (simple) enters its one sleep
SimpleBegin(r) ==
    /\ variant = "simple"
    /\ pc[r] = "received"
    /\ request[r].path = "/work"
    /\ pc' = [pc EXCEPT ![r] = "sleep1"]
    /\ UNCHANGED <<variant, exemplarOk, tracingOk, request, cancelled, local, openSpans, calls, resp, sink, hist>>

\* the sleep returns: the outcome is drawn, printed, and the response written
SimpleOutcome(r) ==
    /\ variant = "simple"
    /\ pc[r] = "sleep1"
    /\ \E failed \in BOOLEAN :
         /\ local' = [local EXCEPT ![r].failed = failed]
         /\ sink' = Emit(sink, PrintfEntry(r, IF failed THEN "ERROR: Request failed after"
                                                ELSE "SUCCESS: Request completed in"))
         /\ resp' = [resp EXCEPT ![r] =
                       IF failed
                       THEN HttpError(@, "Internal Server Error", StatusInternalServerError)
                       ELSE Write(@, "Work completed\n")]
         /\ calls' = [calls EXCEPT ![r] =
                       @ \o <<Call("print", IF failed THEN "ERROR" ELSE "SUCCESS")>>
                         \o (IF failed THEN <<Call("write_header", "work")>> ELSE <<>>)
                         \o <<Call("write_body", "work")>>]
    /\ pc' = [pc EXCEPT ![r] = "returned"]
    /\ UNCHANGED <<variant, exemplarOk, tracingOk, request, cancelled, openSpans, hist>>

\* the handler has returned: the middleware ends the root span
EndRoot(r) ==
    /\ pc[r] = "returned"
    /\ openSpans' = [openSpans EXCEPT ![r] = EndSpan(@, "root")]
    /\ calls' = [calls EXCEPT ![r] = Append(@, Call("span_end", "root"))]
    /\ pc' = [pc EXCEPT ![r] = "done"]
    /\ UNCHANGED <<variant, exemplarOk, tracingOk, request, cancelled, local, resp, sink, hist>>

\* the client goes away during a sleep: net/http cancels r.Context()
Cancel(r) ==
    /\ pc[r] \in {"sleep1", "sleep2"}
    /\ ~cancelled[r]
    /\ cancelled' = [cancelled EXCEPT ![r] = TRUE]
    /\ UNCHANGED <<variant, exemplarOk, tracingOk, pc, request, local, openSpans, calls, resp, sink, hist>>

Step(r) ==
    \/ Healthz(r)
    \/ WorkBegin(r)
    \/ WorkWake1(r)
    \/ WorkWake2(r)
    \/ WorkOutcome(r)
    \/ WorkExemplarLog(r)
    \/ WorkObserve(r)
    \/ SimpleBegin(r)
    \/ SimpleOutcome(r)
    \/ EndRoot(r)

Next ==
    \/ \E r \in Reqs : Arrive(r)
    \/ \E r \in Reqs : Step(r)

\* the service with clients that stay connected
Spec == Init /\ [][Next]_vars

\* every goroutine that can run is eventually scheduled
FairSpec == Spec /\ \A r \in Reqs : WF_vars(Step(r))

NextCancel ==
    \/ Next
    \/ \E r \in Reqs : Cancel(r)

\* the service with clients that may go away while the handler sleeps
CancelSpec == Init /\ [][NextCancel]_vars

\* ------------------------------------------------------ derived notions
IsWork(r) == request[r].path = "/work"
IsRichWork(r) == variant = "rich" /\ IsWork(r)

\* the handler of r has returned to the middleware
Returned(r) == pc[r] \in {"returned", "done"}

OutcomeMsgs == {OutcomeMsg(TRUE), OutcomeMsg(FALSE)}
ExemplarMsgs == {"Attaching exemplar", "Exemplar not supported or traceID empty"}

\* the lines of the sink written for request r, as a bag
LinesOf(r) ==
    LET es == {e \in BagToSet(sink) : e.req = r}
    IN  [e \in es |-> sink[e]]

NumLines(b) == IF DOMAIN b = {} THEN 0 ELSE BagCardinality(b)

OutcomeLinesOf(r) ==
    LET es == {e \in DOMAIN LinesOf(r) : e.structured /\ e.msg \in OutcomeMsgs}
    IN  [e \in es |-> sink[e]]

StructuredLinesOf(r) ==
    LET es == {e \in DOMAIN LinesOf(r) : e.structured}
    IN  [e \in es |-> sink[e]]

RECURSIVE SumOver(_, _)
SumOver(f, S) ==
    IF S = {} THEN 0
    ELSE LET x == CHOOSE y \in S : TRUE IN f[x] + SumOver(f, S \ {x})

\* the number of observations the histogram vector holds
TotalCount == SumOver(hist.count, Labels)

\* the positions of the calls of one kind in a call history
Positions(cs, kinds) == {i \in DOMAIN cs : cs[i][1] \in kinds}

\* ---------------------------------------------------------------- claims

\* C1: in the rich variant, whenever a /work request observed with an
\* exemplar, the trace_id of its outcome log entry equals the exemplar's trace
\* identifier, and neither carries the trace identifier of another request,
\* whatever the interleaving.
C1_TraceIdAgreement ==
    \A r \in Reqs : \A i \in DOMAIN local[r].observed :
        LET o == local[r].observed[i] IN
        (IsRichWork(r) /\ o.exemplar) =>
            /\ NumLines(OutcomeLinesOf(r)) = 1
            /\ \A e \in DOMAIN OutcomeLinesOf(r) : e.trace_id = o.traceID
            /\ hist.exemplar[o.labels] # NoExemplar
            /\ \A q \in Reqs \ {r} :
                 (pc[q] # "idle" /\ request[q].traceID # request[r].traceID) =>
                    /\ o.traceID # TraceIDString(request[q].traceID)
                    /\ \A e \in DOMAIN LinesOf(r) :
                         e.trace_id # TraceIDString(request[q].traceID)

\* two requests with valid, different traces have both observed with an exemplar
C1_Witness ==
    /\ variant = "rich" /\ tracingOk /\ NumReqs >= 2
    /\ \E r, q \in Reqs :
         /\ r # q
         /\ pc[r] = "done" /\ pc[q] = "done"
         /\ Len(local[r].observed) = 1 /\ local[r].observed[1].exemplar
         /\ Len(local[q].observed) = 1 /\ local[q].observed[1].exemplar

\* the response the table of the HTTP surface gives for a path and an outcome
TableResponse(path, failed) ==
    IF path = "/healthz" THEN [status |-> 200, body |-> "OK"]
    ELSE IF failed THEN [status |-> 500, body |-> "Internal Server Error\n"]
    ELSE [status |-> 200, body |-> "Work completed\n"]

ResponseSafe(r) ==
    /\ resp[r].headerCalls <= 1
    /\ resp[r].wroteHeader = (resp[r].headerCalls = 1)
    /\ ~resp[r].wroteHeader => resp[r].body = ""
    /\ resp[r].wroteHeader =>
         /\ [status |-> resp[r].status, body |-> resp[r].body]
              = TableResponse(request[r].path, local[r].failed)
         /\ resp[r].status \in {200, 500}
         /\ request[r].path = "/healthz" => resp[r].status = 200
    /\ Returned(r) => resp[r].wroteHeader

\* C2: in both variants every request that arrived eventually has exactly one
\* response: one status write, 200 "Work completed\n" or 500
\* "Internal Server Error\n" for /work, 200 "OK" for /healthz, and never
\* another status, a second status write or a mixed body.
C2_ExactlyOneResponse ==
    /\ [](\A r \in Reqs : ResponseSafe(r))
    /\ <>[](\A r \in Reqs : pc[r] # "idle" => (Returned(r) /\ resp[r].headerCalls = 1))

\* a failed /work request and a /healthz request have both been answered
C2_Witness ==
    \E r, q \in Reqs :
        /\ pc[r] = "done" /\ IsWork(r) /\ resp[r].status = 500
        /\ resp[r].body = "Internal Server Error\n"
        /\ pc[q] = "done" /\ request[q].path = "/healthz" /\ resp[q].body = "OK"

\* C9: in the rich variant the status label of a /work request's observation,
\* the status field of its outcome log entry and the HTTP status written are
\* equal (all 200 or all 500), and the method label is the request's method.
C9_OneOutcome ==
    \A r \in Reqs : \A i \in DOMAIN local[r].observed :
        LET o == local[r].observed[i] IN
        IsRichWork(r) =>
            /\ resp[r].status \in {200, 500}
            /\ o.labels[2] = Itoa(resp[r].status)
            /\ o.labels[1] = request[r].method
            /\ hist.count[<<request[r].method, Itoa(resp[r].status)>>] >= 1
            /\ NumLines(OutcomeLinesOf(r)) = 1
            /\ \A e \in DOMAIN OutcomeLinesOf(r) : e.status = resp[r].status

\* a failed POST request has observed
C9_Witness ==
    \E r \in Reqs :
        /\ IsRichWork(r) /\ pc[r] = "done"
        /\ request[r].method = "POST"
        /\ resp[r].status = 500
        /\ Len(local[r].observed) = 1

\* the stage of a call of a /work request, in the order the handler's
\* statements run: child spans, outcome entry, response, exemplar entry and
\* observation; the root span's calls are the middleware's
StageInCode(c) ==
    IF c[2] = "root" THEN IF c[1] = "span_start" THEN 0 ELSE 5
    ELSE IF c[1] \in {"span_start", "span_end"} THEN 1
    ELSE IF c[1] = "print" \/ (c[1] = "log" /\ c[2] \in OutcomeMsgs) THEN 2
    ELSE IF c[1] \in {"write_header", "write_body"} THEN 3
    ELSE 4

\* the stage of a call when recording (outcome entry and observation) is to
\* be complete before the response is written
StageAsClaimed(c) ==
    IF c[2] = "root" THEN IF c[1] = "span_start" THEN 0 ELSE 5
    ELSE IF c[1] \in {"span_start", "span_end"} THEN 1
    ELSE IF c[1] \in {"write_header", "write_body"} THEN 3
    ELSE 2

Quiet == \A r \in Reqs : pc[r] \in {"idle", "done"}

\* the /work requests that were handled
WorkDone == {r \in Reqs : pc[r] = "done" /\ IsWork(r)}

RECURSIVE ReplaySpans(_, _)
\* the open spans after the span calls of a history, when every end closed
\* the span started last among those open; <<"!">> otherwise
ReplaySpans(cs, stack) ==
    IF cs = <<>> THEN stack
    ELSE LET c == Head(cs) IN
         IF c[1] = "span_start" THEN ReplaySpans(Tail(cs), Append(stack, c[2]))
         ELSE IF c[1] = "span_end"
              THEN IF stack # <<>> /\ stack[Len(stack)] = c[2]
                   THEN ReplaySpans(Tail(cs), SubSeq(stack, 1, Len(stack) - 1))
                   ELSE <<"!">>
              ELSE ReplaySpans(Tail(cs), stack)

SpanCount(cs, kind, name) == Cardinality({i \in DOMAIN cs : cs[i] = Call(kind, name)})

ChildSpans == {"simulate_work", "db_cache_lookup"}

\* C6: within one /work request span starts and ends are balanced and LIFO:
\* each child span is ended exactly once, an end closes the span started last
\* among the open ones, no child span is open when the handler returns, and
\* the middleware's root span is closed last.
C6_SpansBalancedLIFO ==
    \A r \in Reqs :
        /\ ReplaySpans(calls[r], <<>>) = openSpans[r]
        /\ \A n \in ChildSpans \cup {"root"} :
             /\ SpanCount(calls[r], "span_end", n) <= SpanCount(calls[r], "span_start", n)
             /\ SpanCount(calls[r], "span_start", n) <= 1
        /\ pc[r] = "returned" => openSpans[r] = <<"root">>
        /\ (Returned(r) /\ IsRichWork(r)) =>
             \A n \in ChildSpans : /\ SpanCount(calls[r], "span_start", n) = 1
                                   /\ SpanCount(calls[r], "span_end", n) = 1
        /\ pc[r] = "done" =>
             /\ openSpans[r] = <<>>
             /\ calls[r][Len(calls[r])] = Call("span_end", "root")

\* a rich /work request is done, both child spans started and ended
C6_Witness ==
    \E r \in Reqs :
        /\ IsRichWork(r) /\ pc[r] = "done"
        /\ \A n \in ChildSpans : SpanCount(calls[r], "span_end", n) = 1
        /\ \E q \in Reqs : q # r /\ IsRichWork(q) /\ pc[q] = "sleep2"
                           /\ openSpans[q] = <<"root", "db_cache_lookup">>

\* C7: when the sink does not offer the exemplar capability, the recorder
\* does not fail: the request makes one plain observation, the count of its
\* (method, status) series goes up by one per such request, and the status
\* and body are those of the outcome alone, as with the capability.
C7_PlainFallback ==
    \A r \in Reqs : IsRichWork(r) =>
        /\ Returned(r) =>
             /\ resp[r].status = TableResponse("/work", local[r].failed).status
             /\ resp[r].body = TableResponse("/work", local[r].failed).body
        /\ ~exemplarOk =>
             /\ pc[r] # "exemplar"
             /\ pc[r] = "plain" => ENABLED WorkObserve(r)
             /\ Returned(r) =>
                  /\ Len(local[r].observed) = 1
                  /\ ~local[r].observed[1].exemplar
                  /\ local[r].observed[1].labels = <<request[r].method, Itoa(resp[r].status)>>
             /\ \A l \in Labels :
                  /\ hist.exemplar[l] = NoExemplar
                  /\ hist.count[l] = Cardinality({q \in Reqs :
                        /\ Len(local[q].observed) = 1
                        /\ local[q].observed[1].labels = l})

\* without the capability, a failed and a succeeded request have observed
C7_Witness ==
    /\ ~exemplarOk /\ variant = "rich"
    /\ \E r, q \in Reqs :
         /\ IsRichWork(r) /\ pc[r] = "done" /\ resp[r].status = 500
         /\ Len(local[r].observed) = 1
         /\ IsRichWork(q) /\ pc[q] = "done" /\ resp[q].status = 200
         /\ Len(local[q].observed) = 1
         /\ TotalCount = 2

\* the telemetry calls of a handler: span ends, log and print lines, observations
TelemetryCalls(cs) ==
    SelectSeq(cs, LAMBDA c : c[1] \in {"span_end", "log", "print", "observe"} /\ c[2] # "root")

\* C8: once the request's context is cancelled during the simulated delay,
\* the /work handler makes no further span close, log emission or histogram
\* observation for that request.
C8_AbandonOnCancel ==
    [][\A r \in Reqs :
          cancelled[r] => TelemetryCalls(calls'[r]) = TelemetryCalls(calls[r])]_vars

\* C10: a /work request (rich variant) whose span is a no-op span treats the
\* trace identifier as empty: its observation is plain, without an exemplar,
\* and it logs the warning, not "Attaching exemplar".
C10_NoExemplarWithoutTrace ==
    \A r \in Reqs : (IsRichWork(r) /\ request[r].traceID = 0) =>
        /\ pc[r] # "exemplar"
        /\ \A i \in DOMAIN local[r].observed : ~local[r].observed[i].exemplar
        /\ \A e \in DOMAIN LinesOf(r) : e.msg # "Attaching exemplar"
        /\ Returned(r) =>
             \E e \in DOMAIN LinesOf(r) :
                e.level = "WARN" /\ e.msg = "Exemplar not supported or traceID empty"

====
